---- MODULE Spec2Model ----
(***************************************************************************)
(* Registration forms of arbicho-reg: three variants of one React          *)
(* component (src/unnamed/part_000, src/unnamed/part_001 and               *)
(* src/components/register.tsx).  Each loads reference option lists on     *)
(* mount, validates the form values with a zod schema on submit and POSTs  *)
(* a variant-specific payload.                                             *)
(*                                                                         *)
(* Strings the code inspects character by character (field values) are     *)
(* sequences of one-character strings; strings that are only shown or      *)
(* compared (notification texts, URLs) are TLA+ strings.                   *)
(***************************************************************************)
EXTENDS Integers, Sequences, FiniteSets, TLC

VARIABLES
    variant,      \* which of the three source files is mounted
    mounted,      \* the mount effects have run
    isClient,     \* register.tsx: the isClient state
    seenIsClient, \* register.tsx: the isClient value the [isClient] effect last ran with
    fetchSt,      \* per reference list: none | pending | parsing | loaded | failed
    gets,         \* per reference list: number of GET requests issued
    lists,        \* countries / roles / subjects state: the option ids
    loadErrors,   \* per reference list: "Failed to load ..." notifications shown
    values,       \* the form values held by react-hook-form
    slots,        \* the submissions in flight
    out,          \* what the last step did: requests issued, notifications shown
    probe,        \* input of a validation rule checked on its own
    verdict       \* result of that rule

vars == <<variant, mounted, isClient, seenIsClient, fetchSt, gets, lists,
          loadErrors, values, slots, out, probe, verdict>>

(***************************************************************************)
(* Bounds of the model.                                                    *)
(***************************************************************************)
MaxInFlight == 2   \* submissions in flight at once
MaxNameLen == 4    \* longest full name tried against the length rule
MaxId == 30        \* largest option id tried in the id -> string -> id round trip
MaxProbeLen == 3   \* longest contact number built from every character tried
MaxPhoneDigits == 16  \* most digits tried after the first digit of a contact number

Variants == {"part_000", "part_001", "register"}
AllResources == {"countries", "roles", "subjects"}

(***************************************************************************)
(* Characters.                                                             *)
(***************************************************************************)
Digits == <<"0", "1", "2", "3", "4", "5", "6", "7", "8", "9">>
DigitSet == {Digits[i] : i \in 1..10}
LowerSet == {"a", "b", "c", "d", "e", "f", "g", "h", "i", "j", "k", "l", "m",
             "n", "o", "p", "q", "r", "s", "t", "u", "v", "w", "x", "y", "z"}
UpperSet == {"A", "B", "C", "D", "E", "F", "G", "H", "I", "J", "K", "L", "M",
             "N", "O", "P", "Q", "R", "S", "T", "U", "V", "W", "X", "Y", "Z"}
LetterSet == LowerSet \cup UpperSet
AlnumSet == LetterSet \cup DigitSet

DigitVal(c) == CHOOSE d \in 0..9 : Digits[d + 1] = c

(***************************************************************************)
(* JSON values of a request body.                                          *)
(***************************************************************************)
JSStr(s) == [t |-> "string", s |-> s]
JSNum(n) == [t |-> "number", n |-> n]
JSNaN == [t |-> "NaN"]
JSObj(o) == [t |-> "object", o |-> o]
JSNone == [t |-> "none"]

(***************************************************************************)
(* Number.prototype.toString and parseInt, base 10, on integers.           *)
(***************************************************************************)
RECURSIVE NatToString(_)
NatToString(n) ==
    IF n < 10 THEN <<Digits[n + 1]>>
    ELSE NatToString(n \div 10) \o <<Digits[(n % 10) + 1]>>

toString(n) == IF n < 0 THEN <<"-">> \o NatToString(-n) ELSE NatToString(n)

RECURSIVE DigitPrefix(_)
\* the longest prefix of s made of digits
DigitPrefix(s) ==
    IF s = <<>> \/ Head(s) \notin DigitSet THEN <<>>
    ELSE <<Head(s)>> \o DigitPrefix(Tail(s))

RECURSIVE DigitsValue(_)
DigitsValue(ds) ==
    IF ds = <<>> THEN 0
    ELSE 10 * DigitsValue(SubSeq(ds, 1, Len(ds) - 1)) + DigitVal(ds[Len(ds)])

RECURSIVE SkipSpaces(_)
SkipSpaces(s) == IF s # <<>> /\ Head(s) = " " THEN SkipSpaces(Tail(s)) ELSE s

\* parseInt(s): leading blanks skipped, an optional sign, then the digits up to
\* the first other character; NaN when there is no digit.
parseInt(s) ==
    LET t == SkipSpaces(s)
        neg == t # <<>> /\ Head(t) = "-"
        u == IF t # <<>> /\ Head(t) \in {"-", "+"} THEN Tail(t) ELSE t
        ds == DigitPrefix(u)
    IN  IF ds = <<>> THEN JSNaN
        ELSE JSNum(IF neg THEN -DigitsValue(ds) ELSE DigitsValue(ds))

(***************************************************************************)
(* Constants of the three files.                                           *)
(***************************************************************************)
baseUrl(v) ==
    IF v = "part_001" THEN "<process.env.API_BASE_URL>"
    ELSE "https://api.olympcentre.uz/"

GetUrl(v, r) == baseUrl(v) \o "api/" \o r \o "/"
PostUrl(v) == baseUrl(v) \o "api/participation-requests/"

\* the reference lists each file fetches
Resources(v) ==
    CASE v = "part_000" -> {"countries", "roles"}
      [] v = "part_001" -> {"countries", "roles", "subjects"}
      [] v = "register" -> {"countries"}

TeamLeader == <<"T", "e", "a", "m", " ", "L", "e", "a", "d", "e", "r">>
TeamCoordinator == <<"T", "e", "a", "m", " ", "C", "o", "o", "r", "d", "i", "n",
                     "a", "t", "o", "r">>
\* register.tsx: the values of the static role options
roleOptions == <<TeamLeader, TeamCoordinator>>

\* the values of the headcount options
studentCounts == <<<<"0">>, <<"1">>, <<"2">>, <<"3">>, <<"4">>>>
studentCountsMaths == <<<<"0">>, <<"1">>, <<"2">>, <<"3">>, <<"4">>>>
\* an informatics list as long as the maths list
studentCountsInfoUpToFour == <<<<"0">>, <<"1">>, <<"2">>, <<"3">>, <<"4">>>>
studentCountsInfo == <<<<"0">>, <<"1">>, <<"2">>>>
teamLeaders == <<<<"0">>, <<"1">>, <<"2">>>>

Range(seq) == {seq[i] : i \in 1..Len(seq)}

PhoneField(v) ==
    CASE v = "part_000" -> "whatsapp_number"
      [] v = "part_001" -> "whatsapp_numer"
      [] v = "register" -> "phone_number"

\* the headcount fields of a file, each with its option values
HeadcountChoices(v) ==
    CASE v = "part_000" -> [number_of_students |-> studentCountsMaths]
      [] v = "part_001" -> [maths_students |-> studentCountsMaths,
                            informatics_students |-> studentCountsInfo,
                            maths_team_leaders |-> teamLeaders,
                            informatics_team_leaders |-> teamLeaders]
      [] v = "register" -> [students_coming |-> studentCounts]

HeadcountFields(v) == DOMAIN HeadcountChoices(v)

SuccessText(v) ==
    IF v = "part_001" THEN "Registration submitted successfully!"
    ELSE "Thank you for your registration. You will receive a confirmation email from the organization shortly. Please allow a few moments for this correspondence to arrive."
RejectedText == "Failed to submit registration."
ExceptionText == "An error occurred while submitting."
LoadFailedText(r) == "Failed to load " \o r

Toast(kind, text) == [kind |-> kind, text |-> text]
Request(method, url, body) == [method |-> method, url |-> url, body |-> body]

(***************************************************************************)
(* useForm's defaultValues.                                                *)
(***************************************************************************)
defaultValues(v) ==
    CASE v = "part_000" ->
           [full_name |-> <<>>, country |-> <<>>, role |-> <<>>, email |-> <<>>,
            whatsapp_number |-> <<>>, number_of_students |-> <<"0">>]
      [] v = "part_001" ->
           [full_name |-> <<>>, country |-> <<>>, role |-> <<>>,
            subject |-> <<>>, email |-> <<>>, whatsapp_numer |-> <<>>,
            maths_students |-> <<"0">>, informatics_students |-> <<"0">>,
            maths_team_leaders |-> <<"0">>,
            informatics_team_leaders |-> <<"0">>]
      [] v = "register" ->
           [full_name |-> <<>>, country |-> <<>>, role |-> <<>>, email |-> <<>>,
            phone_number |-> <<>>, students_coming |-> <<"0">>]

FormFields(v) == DOMAIN defaultValues(v)

(***************************************************************************)
(* formSchema: the zod rules.                                              *)
(***************************************************************************)
\* a length rule that needs more than n characters
StringMinExclusive(s, n) == Len(s) > n

\* z.string().min(n): at least n characters
StringMin(s, n) == Len(s) >= n

MinFullName(v) == IF v = "part_001" THEN 2 ELSE 3

FullNameOk(v, s) == StringMin(s, MinFullName(v))

\* the pattern with its leading '+' made optional: /^\+?[1-9]\d{1,14}$/
WhatsappRegexPlusOptional(s) ==
    LET t == IF s # <<>> /\ Head(s) = "+" THEN Tail(s) ELSE s
    IN  /\ Len(t) >= 2
        /\ Len(t) <= 15
        /\ t[1] \in DigitSet \ {"0"}
        /\ \A i \in 2..Len(t) : t[i] \in DigitSet

\* /^\+[1-9]\d{1,14}$/
WhatsappRegex(s) ==
    /\ Len(s) >= 3
    /\ Len(s) <= 16
    /\ s[1] = "+"
    /\ s[2] \in DigitSet \ {"0"}
    /\ \A i \in 3..Len(s) : s[i] \in DigitSet

PhoneOk(v, s) == IF v = "register" THEN StringMin(s, 1) ELSE WhatsappRegex(s)

\* z.string().email(): zod's pattern
\* /^(?!\.)(?!.*\.\.)([A-Z0-9_'+\-\.]*)[A-Z0-9_+-]@([A-Z0-9][A-Z0-9\-]*\.)+[A-Z]{2,}$/i
EmailLocalOk(l) ==
    /\ Len(l) >= 1
    /\ \A i \in 1..Len(l) : l[i] \in AlnumSet \cup {"_", "'", "+", "-", "."}
    /\ l[Len(l)] \in AlnumSet \cup {"_", "+", "-"}

EmailDomainOk(d) ==
    \E p \in 1..Len(d) :
        /\ d[p] = "."
        /\ \A i \in (p + 1)..Len(d) : d[i] \in LetterSet
        /\ Len(d) - p >= 2
        /\ d[1] \in AlnumSet
        /\ \A i \in 1..p : d[i] \in AlnumSet \cup {"-", "."}
        /\ \A i \in 1..(p - 1) : d[i] = "." => d[i + 1] \in AlnumSet

IsEmail(s) ==
    /\ Len(s) >= 1
    /\ s[1] # "."
    /\ \A i \in 1..(Len(s) - 1) : ~(s[i] = "." /\ s[i + 1] = ".")
    /\ \E k \in 1..Len(s) :
        /\ s[k] = "@"
        /\ EmailLocalOk(SubSeq(s, 1, k - 1))
        /\ EmailDomainOk(SubSeq(s, k + 1, Len(s)))

\* the fields of vals that break a rule of the file's schema
FieldErrors(v, vals) ==
    {f \in FormFields(v) :
        CASE f = "full_name" -> ~FullNameOk(v, vals[f])
          [] f = "email" -> ~IsEmail(vals[f])
          [] f = PhoneField(v) -> ~PhoneOk(v, vals[f])
          [] OTHER -> ~StringMin(vals[f], 1)}

\* a schema without the rules of the country, role and subject selections
SchemaWithoutSelectionRules(v, vals) ==
    FieldErrors(v, vals) \subseteq {"country", "role", "subject"}

\* a schema whose email rule was left out
SchemaWithoutEmailRule(v, vals) == FieldErrors(v, vals) \subseteq {"email"}

SchemaAccepts(v, vals) == FieldErrors(v, vals) = {}

(***************************************************************************)
(* The request body.                                                       *)
(***************************************************************************)
\* formData whose country is parsed from the role field
formDataCountryFromRole(v, vals) ==
    CASE v = "part_000" ->
           [full_name |-> JSStr(vals.full_name),
            country |-> parseInt(vals.role),
            role |-> parseInt(vals.role),
            email |-> JSStr(vals.email),
            whatsapp_number |-> JSStr(vals.whatsapp_number),
            number_of_students |-> JSStr(vals.number_of_students)]
      [] v = "part_001" ->
           [full_name |-> JSStr(vals.full_name),
            country |-> JSStr(vals.country),
            role |-> JSStr(vals.role),
            subject |-> JSStr(vals.subject),
            email |-> JSStr(vals.email),
            whatsapp_numer |-> JSStr(vals.whatsapp_numer),
            participants |-> JSObj(
               [maths_students |-> JSStr(vals.maths_students),
                informatics_students |-> JSStr(vals.informatics_students),
                maths_team_leaders |-> JSStr(vals.maths_team_leaders),
                informatics_team_leaders |->
                    JSStr(vals.informatics_team_leaders)])]
      [] v = "register" ->
           [full_name |-> JSStr(vals.full_name),
            country |-> parseInt(vals.role),
            role |-> JSStr(vals.role),
            email |-> JSStr(vals.email),
            phone_number |-> JSStr(vals.phone_number),
            students_coming |-> JSStr(vals.students_coming)]

\* formData that sends the headcounts of part_001 flat and the role of
\* register.tsx parsed, as part_000 does
formDataLikePart000(v, vals) ==
    CASE v = "part_000" ->
           [full_name |-> JSStr(vals.full_name),
            country |-> parseInt(vals.country),
            role |-> parseInt(vals.role),
            email |-> JSStr(vals.email),
            whatsapp_number |-> JSStr(vals.whatsapp_number),
            number_of_students |-> JSStr(vals.number_of_students)]
      [] v = "part_001" ->
           [full_name |-> JSStr(vals.full_name),
            country |-> JSStr(vals.country),
            role |-> JSStr(vals.role),
            subject |-> JSStr(vals.subject),
            email |-> JSStr(vals.email),
            whatsapp_numer |-> JSStr(vals.whatsapp_numer),
            maths_students |-> JSStr(vals.maths_students),
            informatics_students |-> JSStr(vals.informatics_students),
            maths_team_leaders |-> JSStr(vals.maths_team_leaders),
            informatics_team_leaders |-> JSStr(vals.informatics_team_leaders)]
      [] v = "register" ->
           [full_name |-> JSStr(vals.full_name),
            country |-> parseInt(vals.country),
            role |-> parseInt(vals.role),
            email |-> JSStr(vals.email),
            phone_number |-> JSStr(vals.phone_number),
            students_coming |-> JSStr(vals.students_coming)]

\* onSubmit's formData: the request body built from the validated values
formData(v, vals) ==
    CASE v = "part_000" ->
           [full_name |-> JSStr(vals.full_name),
            country |-> parseInt(vals.country),
            role |-> parseInt(vals.role),
            email |-> JSStr(vals.email),
            whatsapp_number |-> JSStr(vals.whatsapp_number),
            number_of_students |-> JSStr(vals.number_of_students)]
      [] v = "part_001" ->
           [full_name |-> JSStr(vals.full_name),
            country |-> JSStr(vals.country),
            role |-> JSStr(vals.role),
            subject |-> JSStr(vals.subject),
            email |-> JSStr(vals.email),
            whatsapp_numer |-> JSStr(vals.whatsapp_numer),
            participants |-> JSObj(
               [maths_students |-> JSStr(vals.maths_students),
                informatics_students |-> JSStr(vals.informatics_students),
                maths_team_leaders |-> JSStr(vals.maths_team_leaders),
                informatics_team_leaders |->
                    JSStr(vals.informatics_team_leaders)])]
      [] v = "register" ->
           [full_name |-> JSStr(vals.full_name),
            country |-> parseInt(vals.country),
            role |-> JSStr(vals.role),
            email |-> JSStr(vals.email),
            phone_number |-> JSStr(vals.phone_number),
            students_coming |-> JSStr(vals.students_coming)]

(***************************************************************************)
(* Inputs of the model: what the API answers and what the user enters.     *)
(***************************************************************************)
\* HTTP statuses of a response; res.ok is true for 200..299
StatusSamples == {200, 201, 400, 500}
ResOk(status) == status >= 200 /\ status <= 299

\* the array of option ids a successful GET of a reference list returns
OptionSamples(r) ==
    CASE r = "countries" -> {<<>>, <<3, 12>>}
      [] r = "roles" -> {<<>>, <<1, 2>>}
      [] r = "subjects" -> {<<>>, <<7>>}

EmailRegistered == "Email already registered"
\* bodies of a rejected POST: not JSON, the JSON null, an object without a
\* message field, an object with one
ErrorBodies ==
    {[kind |-> k, message |-> ""] : k \in {"unparsable", "null", "nomessage"}}
    \cup {[kind |-> "message", message |-> m] : m \in {"", EmailRegistered}}

\* what a fetch settles with: a rejection (network failure) or a response
Settlements ==
    {[kind |-> "rejected", status |-> 0]}
    \cup {[kind |-> "response", status |-> st] : st \in StatusSamples}

NameAli == <<"A", "l", "i">>
NameAl == <<"A", "l">>
EmailGood == <<"a", "@", "b", ".", "c", "o">>
EmailNoAt == <<"a", ".", "b">>
PhonePlus == <<"+", "1", "2">>
PhonePlain == <<"1", "2">>

(***************************************************************************)
(* The options each Select renders.                                        *)
(***************************************************************************)
\* SelectItem value={x.id.toString()} for every entry of a loaded list
IdOptions(ids) == [i \in 1..Len(ids) |-> toString(ids[i])]

SelectOptions(v, f) ==
    CASE f = "country" -> IdOptions(lists["countries"])
      [] f = "role" ->
           IF v = "register" THEN roleOptions ELSE IdOptions(lists["roles"])
      [] f = "subject" -> IdOptions(lists["subjects"])
      [] OTHER -> HeadcountChoices(v)[f]

SelectFields(v) == FormFields(v) \ {"full_name", "email", PhoneField(v)}

\* a Select holds its default value or one of the rendered options
Selectable(v, vals) ==
    \A f \in SelectFields(v) :
        vals[f] = defaultValues(v)[f] \/ vals[f] \in Range(SelectOptions(v, f))

\* the k-th rendered option of a Select (the last one when there are fewer),
\* nothing when none is rendered
PickOption(v, f, k) ==
    LET opts == SelectOptions(v, f)
    IN  IF opts = <<>> THEN <<>>
        ELSE opts[IF k > Len(opts) THEN Len(opts) ELSE k]

\* a form filled in by the user: the given texts, and in every Select the
\* k-th option (k+1-th of a headcount, whose first option is the default);
\* k = 4 picks the last option of every headcount
Filled(v, k, name, email, phone) ==
    [f \in FormFields(v) |->
        CASE f = "full_name" -> name
          [] f = "email" -> email
          [] f = PhoneField(v) -> phone
          [] f \in HeadcountFields(v) -> PickOption(v, f, k + 1)
          [] OTHER -> PickOption(v, f, k)]

FormSamples(v) ==
    {Filled(v, 1, NameAli, EmailGood, PhonePlus),
     Filled(v, 2, NameAli, EmailGood, PhonePlus),
     Filled(v, 4, NameAli, EmailGood, PhonePlus),
     Filled(v, 1, NameAl, EmailGood, PhonePlus),
     Filled(v, 1, NameAli, EmailGood, PhonePlain),
     Filled(v, 1, NameAli, EmailNoAt, PhonePlus),
     [Filled(v, 1, NameAli, EmailGood, PhonePlus) EXCEPT !["country"] = <<>>]}

(***************************************************************************)
(* State.                                                                  *)
(***************************************************************************)
IdleSlot == [st |-> "Idle"]
SlotIds == 1..MaxInFlight

\* what a step did: its kind, the reference list or submission it is about,
\* what it was given (a settlement, a body), the requests it issued, the
\* notifications it showed, the states of the submission it went through and
\* the fields it marked with an inline message
NoInput == [kind |-> "none"]
Output(event, resource, slot, input, requests, toasts, trace, errors) ==
    [event |-> event, resource |-> resource, slot |-> slot, input |-> input,
     requests |-> requests, toasts |-> toasts, trace |-> trace,
     errors |-> errors]
NoOutput == Output("none", "", 0, NoInput, <<>>, <<>>, <<>>, {})

NoVerdict == [rule |-> "none"]

\* the component after construction: nothing fetched, the form at its defaults
InitForm ==
    /\ variant \in Variants
    /\ mounted = FALSE
    /\ isClient = FALSE
    /\ seenIsClient = FALSE
    /\ fetchSt = [r \in AllResources |-> "none"]
    /\ gets = [r \in AllResources |-> 0]
    /\ lists = [r \in AllResources |-> <<>>]
    /\ loadErrors = [r \in AllResources |-> 0]
    /\ values = defaultValues(variant)
    /\ slots = [i \in SlotIds |-> IdleSlot]
    /\ out = NoOutput

Init ==
    /\ InitForm
    /\ probe = <<>>
    /\ verdict = NoVerdict

\* the form is on screen and every pending effect has run
Rendered ==
    /\ mounted
    /\ variant = "register" => (isClient /\ seenIsClient = isClient)

(***************************************************************************)
(* Option Loader: the fetch effects.                                       *)
(***************************************************************************)
ResourceOrder == <<"countries", "roles", "subjects">>

\* register.tsx without its `if (isClient)` guard
EffectFetchesUnguarded(v, r, client) == TRUE

\* whether the effect of reference list r calls its fetch function
EffectFetches(v, r, client) == IF v = "register" THEN client ELSE TRUE

GetRequests(v, rs) ==
    SelectSeq([i \in 1..3 |-> Request("GET", GetUrl(v, ResourceOrder[i]), JSNone)],
              LAMBDA q : \E r \in rs : q.url = GetUrl(v, r))

\* the effects run with the current isClient: each fetch function called
\* issues its GET
RunEffects ==
    LET rs == {r \in Resources(variant) : EffectFetches(variant, r, isClient)}
    IN  /\ fetchSt' = [r \in AllResources |->
                          IF r \in rs THEN "pending" ELSE fetchSt[r]]
        /\ gets' = [r \in AllResources |->
                          IF r \in rs THEN gets[r] + 1 ELSE gets[r]]
        /\ seenIsClient' = isClient
        /\ out' = Output("effects", "", 0, NoInput, GetRequests(variant, rs),
                         <<>>, <<>>, {})

\* the effects after the first render; register.tsx also sets isClient
MountEffects ==
    /\ ~mounted
    /\ mounted' = TRUE
    /\ isClient' = IF variant = "register" THEN TRUE ELSE isClient
    /\ RunEffects
    /\ UNCHANGED <<variant, lists, loadErrors, values, slots, probe, verdict>>

\* register.tsx: the [isClient] effect runs again when isClient has changed
ClientEffect ==
    /\ mounted
    /\ variant = "register"
    /\ seenIsClient # isClient
    /\ RunEffects
    /\ UNCHANGED <<variant, mounted, isClient, lists, loadErrors, values, slots,
                   probe, verdict>>

\* a fetch function without `if (!res.ok) throw`
fetchSettledIgnoresStatus(r, res) ==
    IF res.kind = "response"
    THEN [st |-> "parsing", toasts |-> <<>>]
    ELSE [st |-> "failed", toasts |-> <<Toast("error", LoadFailedText(r))>>]

\* fetchX after `await fetch`: a rejection or a non-ok status is caught and
\* notified, an ok response goes on to `await res.json()`
fetchSettled(r, res) ==
    IF res.kind = "response" /\ ResOk(res.status)
    THEN [st |-> "parsing", toasts |-> <<>>]
    ELSE [st |-> "failed", toasts |-> <<Toast("error", LoadFailedText(r))>>]

GetSettles(r, res) ==
    /\ fetchSt[r] = "pending"
    /\ LET next == fetchSettled(r, res)
       IN  /\ fetchSt' = [fetchSt EXCEPT ![r] = next.st]
           /\ loadErrors' = [loadErrors EXCEPT ![r] = @ + Len(next.toasts)]
           /\ out' = Output("getSettled", r, 0, res, <<>>, next.toasts, <<>>, {})
    /\ UNCHANGED <<variant, mounted, isClient, seenIsClient, gets, lists, values,
                   slots, probe, verdict>>

\* fetch functions that store what they parsed in one state shared by all
GetBodyParsedIntoSharedState(r, data) ==
    /\ fetchSt[r] = "parsing"
    /\ fetchSt' = [fetchSt EXCEPT ![r] = "loaded"]
    /\ lists' = [q \in AllResources |-> data]
    /\ out' = Output("getLoaded", r, 0, [kind |-> "body", data |-> data], <<>>,
                     <<>>, <<>>, {})
    /\ UNCHANGED <<variant, mounted, isClient, seenIsClient, gets, loadErrors,
                   values, slots, probe, verdict>>

\* fetchX after `await res.json()`: the parsed array is stored
GetBodyParsed(r, data) ==
    /\ fetchSt[r] = "parsing"
    /\ fetchSt' = [fetchSt EXCEPT ![r] = "loaded"]
    /\ lists' = [lists EXCEPT ![r] = data]
    /\ out' = Output("getLoaded", r, 0, [kind |-> "body", data |-> data], <<>>,
                     <<>>, <<>>, {})
    /\ UNCHANGED <<variant, mounted, isClient, seenIsClient, gets, loadErrors,
                   values, slots, probe, verdict>>

\* fetchX when res.json() throws: caught and notified
GetBodyUnparsable(r) ==
    /\ fetchSt[r] = "parsing"
    /\ fetchSt' = [fetchSt EXCEPT ![r] = "failed"]
    /\ loadErrors' = [loadErrors EXCEPT ![r] = @ + 1]
    /\ out' = Output("getUnparsable", r, 0, NoInput, <<>>,
                     <<Toast("error", LoadFailedText(r))>>, <<>>, {})
    /\ UNCHANGED <<variant, mounted, isClient, seenIsClient, gets, lists, values,
                   slots, probe, verdict>>

(***************************************************************************)
(* The user fills in the form: field.onChange of each control.             *)
(***************************************************************************)
UserEdits(vals) ==
    /\ Rendered
    /\ vals \in FormSamples(variant)
    /\ Selectable(variant, vals)
    /\ vals # values
    /\ values' = vals
    /\ out' = Output("edit", "", 0, NoInput, <<>>, <<>>, <<>>, {})
    /\ UNCHANGED <<variant, mounted, isClient, seenIsClient, fetchSt, gets, lists,
                   loadErrors, slots, probe, verdict>>

(***************************************************************************)
(* Submitter: form.handleSubmit(onSubmit) and onSubmit.                    *)
(***************************************************************************)
FreeSlots == {i \in SlotIds : slots[i].st = "Idle"}

\* a submit control that is disabled while a submission is pending
handleSubmitDisabledWhilePending ==
    /\ Rendered
    /\ \A j \in SlotIds : slots[j].st = "Idle"
    /\ LET req == Request("POST", PostUrl(variant), formData(variant, values))
       IN  IF SchemaAccepts(variant, values)
           THEN /\ slots' = [slots EXCEPT ![1] =
                       [st |-> "Submitting", values |-> values, req |-> req]]
                /\ out' = Output("submit", "", 1, NoInput, <<req>>, <<>>,
                                 <<"Idle", "Validating", "Valid", "Submitting">>, {})
           ELSE /\ slots' = slots
                /\ out' = Output("invalid", "", 1, NoInput, <<>>, <<>>,
                                 <<"Idle", "Validating", "Invalid", "Idle">>,
                                 FieldErrors(variant, values))
    /\ UNCHANGED <<variant, mounted, isClient, seenIsClient, fetchSt, gets, lists,
                   loadErrors, values, probe, verdict>>

\* the submit click: the resolver validates the current values; onSubmit runs
\* only when no rule is broken, builds formData and issues the POST
handleSubmit ==
    /\ Rendered
    /\ FreeSlots # {}
    /\ LET i == CHOOSE j \in FreeSlots : \A k \in FreeSlots : j <= k
           req == Request("POST", PostUrl(variant), formData(variant, values))
       IN  IF SchemaAccepts(variant, values)
           THEN /\ slots' = [slots EXCEPT ![i] =
                       [st |-> "Submitting", values |-> values, req |-> req]]
                /\ out' = Output("submit", "", i, NoInput, <<req>>, <<>>,
                                 <<"Idle", "Validating", "Valid", "Submitting">>, {})
           ELSE /\ slots' = slots
                /\ out' = Output("invalid", "", i, NoInput, <<>>, <<>>,
                                 <<"Idle", "Validating", "Invalid", "Idle">>,
                                 FieldErrors(variant, values))
    /\ UNCHANGED <<variant, mounted, isClient, seenIsClient, fetchSt, gets, lists,
                   loadErrors, values, probe, verdict>>

\* onSubmit that notifies a non-ok status before it reads the error body
onSubmitSettledNotifiesStatus(v, vals, res) ==
    IF res.kind = "rejected"
    THEN [values |-> vals, toasts |-> <<Toast("error", ExceptionText)>>,
          trace |-> <<"Submitting", "Failed", "Idle">>]
    ELSE IF ResOk(res.status)
    THEN [values |-> defaultValues(v),
          toasts |-> <<Toast("success", SuccessText(v))>>,
          trace |-> <<"Submitting", "Succeeded", "Idle">>]
    ELSE [values |-> vals, toasts |-> <<Toast("error", RejectedText)>>,
          trace |-> <<"Submitting", "Failed">>]

\* onSubmit without form.reset() in the ok branch
onSubmitSettledNoReset(v, vals, res) ==
    IF res.kind = "rejected"
    THEN [values |-> vals, toasts |-> <<Toast("error", ExceptionText)>>,
          trace |-> <<"Submitting", "Failed", "Idle">>]
    ELSE IF ResOk(res.status)
    THEN [values |-> vals,
          toasts |-> <<Toast("success", SuccessText(v))>>,
          trace |-> <<"Submitting", "Succeeded", "Idle">>]
    ELSE [values |-> vals, toasts |-> <<>>,
          trace |-> <<"Submitting", "Failed">>]

\* onSubmit after `await fetch`: the form values, notifications and state of
\* the submission once the POST has settled with res
onSubmitSettled(v, vals, res) ==
    IF res.kind = "rejected"
    THEN [values |-> vals, toasts |-> <<Toast("error", ExceptionText)>>,
          trace |-> <<"Submitting", "Failed", "Idle">>]
    ELSE IF ResOk(res.status)
    THEN [values |-> defaultValues(v),
          toasts |-> <<Toast("success", SuccessText(v))>>,
          trace |-> <<"Submitting", "Succeeded", "Idle">>]
    ELSE [values |-> vals, toasts |-> <<>>,
          trace |-> <<"Submitting", "Failed">>]

\* an error branch that never reads errorData.message
ErrorTextAlwaysGeneric(body) ==
    IF body.kind \in {"unparsable", "null"} THEN ExceptionText ELSE RejectedText

\* errorData.message || "Failed to submit registration."; a body that is not
\* JSON, or null, throws and is caught
ErrorText(body) ==
    CASE body.kind = "unparsable" -> ExceptionText
      [] body.kind = "null" -> ExceptionText
      [] body.kind = "nomessage" -> RejectedText
      [] body.kind = "message" ->
           IF body.message = "" THEN RejectedText ELSE body.message

\* an error branch that never finishes the submission
onSubmitErrorBodyHangs(v, vals, body) ==
    [values |-> vals, toasts |-> <<Toast("error", ErrorText(body))>>,
     trace |-> <<"Failed">>]

\* onSubmit with form.reset() also in the rejected branch
onSubmitErrorBodyResets(v, vals, body) ==
    [values |-> defaultValues(v), toasts |-> <<Toast("error", ErrorText(body))>>,
     trace |-> <<"Failed", "Idle">>]

\* onSubmit after `await res.json()` of a rejected POST
onSubmitErrorBody(v, vals, body) ==
    [values |-> vals, toasts |-> <<Toast("error", ErrorText(body))>>,
     trace |-> <<"Failed", "Idle">>]

Last(seq) == seq[Len(seq)]

\* what a POST settled with, and whether the form then still held the values
\* onSubmit was called with
Arrived(i, res) ==
    [kind |-> res.kind, status |-> res.status,
     formEdited |-> values # slots[i].values]

\* a reset on success that spares a form edited since the submit click
PostSettlesSparingEdits(i, res) ==
    /\ slots[i].st = "Submitting"
    /\ LET next == onSubmitSettled(variant, values, res)
       IN  /\ values' = IF values = slots[i].values THEN next.values ELSE values
           /\ slots' = [slots EXCEPT ![i] = [st |-> Last(next.trace)]]
           /\ out' = Output(IF res.kind = "rejected" THEN "postRejected"
                            ELSE IF ResOk(res.status) THEN "postOk"
                            ELSE "postNotOk",
                            "", i, Arrived(i, res), <<>>, next.toasts,
                            next.trace, {})
    /\ UNCHANGED <<variant, mounted, isClient, seenIsClient, fetchSt, gets, lists,
                   loadErrors, probe, verdict>>

\* a reset on success that also clears the loaded option lists
PostSettlesResettingLists(i, res) ==
    /\ slots[i].st = "Submitting"
    /\ LET next == onSubmitSettled(variant, values, res)
       IN  /\ values' = next.values
           /\ lists' = IF res.kind = "response" /\ ResOk(res.status)
                       THEN [r \in AllResources |-> <<>>] ELSE lists
           /\ slots' = [slots EXCEPT ![i] = [st |-> Last(next.trace)]]
           /\ out' = Output(IF res.kind = "rejected" THEN "postRejected"
                            ELSE IF ResOk(res.status) THEN "postOk"
                            ELSE "postNotOk",
                            "", i, Arrived(i, res), <<>>, next.toasts,
                            next.trace, {})
    /\ UNCHANGED <<variant, mounted, isClient, seenIsClient, fetchSt, gets,
                   loadErrors, probe, verdict>>

PostSettles(i, res) ==
    /\ slots[i].st = "Submitting"
    /\ LET next == onSubmitSettled(variant, values, res)
       IN  /\ values' = next.values
           /\ slots' = [slots EXCEPT ![i] = [st |-> Last(next.trace)]]
           /\ out' = Output(IF res.kind = "rejected" THEN "postRejected"
                            ELSE IF ResOk(res.status) THEN "postOk"
                            ELSE "postNotOk",
                            "", i, Arrived(i, res), <<>>, next.toasts,
                            next.trace, {})
    /\ UNCHANGED <<variant, mounted, isClient, seenIsClient, fetchSt, gets, lists,
                   loadErrors, probe, verdict>>

PostBodySettles(i, body) ==
    /\ slots[i].st = "Failed"
    /\ LET next == onSubmitErrorBody(variant, values, body)
       IN  /\ values' = next.values
           /\ slots' = [slots EXCEPT ![i] = [st |-> Last(next.trace)]]
           /\ out' = Output("postErrorBody", "", i, body, <<>>, next.toasts,
                            next.trace, {})
    /\ UNCHANGED <<variant, mounted, isClient, seenIsClient, fetchSt, gets, lists,
                   loadErrors, probe, verdict>>

Next ==
    \/ MountEffects
    \/ ClientEffect
    \/ \E r \in AllResources, res \in Settlements : GetSettles(r, res)
    \/ \E r \in AllResources : \E data \in OptionSamples(r) : GetBodyParsed(r, data)
    \/ \E r \in AllResources : GetBodyUnparsable(r)
    \/ \E vals \in FormSamples(variant) : UserEdits(vals)
    \/ handleSubmit
    \/ \E i \in SlotIds, res \in Settlements : PostSettles(i, res)
    \/ \E i \in SlotIds, body \in ErrorBodies : PostBodySettles(i, body)

Spec == Init /\ [][Next]_vars

\* React runs the effects of a committed render; nothing makes the network
\* answer: no timeout or cancellation is set on any fetch
FairSpec == Spec /\ WF_vars(MountEffects) /\ WF_vars(ClientEffect)

(***************************************************************************)
(* The full-name rule on its own, over every name up to MaxNameLen.        *)
(***************************************************************************)
NameAlphabet == {"a", " "}
NameProbes == UNION {[1..n -> NameAlphabet] : n \in 0..MaxNameLen}

ValidationInit ==
    /\ InitForm
    /\ probe \in NameProbes
    /\ verdict = NoVerdict

\* formSchema.full_name applied to the probe
ValidateFullName ==
    /\ verdict' = [rule |-> "full_name", ok |-> FullNameOk(variant, probe)]
    /\ UNCHANGED <<variant, mounted, isClient, seenIsClient, fetchSt, gets, lists,
                   loadErrors, values, slots, out, probe>>

ValidationNext == ValidateFullName

ValidationSpec == ValidationInit /\ [][ValidationNext]_vars

(***************************************************************************)
(* The contact-number rule on its own: every string of up to MaxProbeLen   *)
(* characters of PhoneAlphabet, and numbers of up to MaxPhoneDigits        *)
(* further digits with and without the '+', or with a trailing letter.     *)
(***************************************************************************)
PhoneAlphabet == {"+", "0", "1", "a"}
Zeros(k) == [i \in 1..k |-> "0"]
PhoneExamplePlain == <<"1", "2", "3", "4", "5", "6", "7", "8", "9", "0">>
PhoneExamplePlus == <<"+">> \o PhoneExamplePlain
PhoneProbes ==
    UNION {[1..n -> PhoneAlphabet] : n \in 0..MaxProbeLen}
    \cup {<<"+", "9">> \o Zeros(k) : k \in 0..MaxPhoneDigits}
    \cup {<<"9">> \o Zeros(k) : k \in 0..MaxPhoneDigits}
    \cup {<<"+", "9">> \o Zeros(k) \o <<"a">> : k \in 0..MaxPhoneDigits}
    \cup {PhoneExamplePlain, PhoneExamplePlus}

\* a form every field of which passes its rule
ValidForm(v) ==
    [f \in FormFields(v) |->
        CASE f = "full_name" -> NameAli
          [] f = "email" -> EmailGood
          [] f = PhoneField(v) -> PhonePlus
          [] f = "country" -> <<"3">>
          [] f = "role" -> IF v = "register" THEN TeamLeader ELSE <<"1">>
          [] f = "subject" -> <<"7">>
          [] OTHER -> <<"1">>]

PhoneInit ==
    /\ InitForm
    /\ probe \in PhoneProbes
    /\ verdict = NoVerdict

\* the contact-number rule applied to the probe, and the whole schema applied
\* to an otherwise valid form holding the probe as its contact number
ValidatePhone ==
    /\ verdict' = [rule |-> "phone",
                   ok |-> PhoneOk(variant, probe),
                   submits |-> SchemaAccepts(variant,
                       [ValidForm(variant) EXCEPT ![PhoneField(variant)] = probe])]
    /\ UNCHANGED <<variant, mounted, isClient, seenIsClient, fetchSt, gets, lists,
                   loadErrors, values, slots, out, probe>>

PhoneNext == ValidatePhone

PhoneSpec == PhoneInit /\ [][PhoneNext]_vars

(***************************************************************************)
(* Claims.                                                                 *)
(***************************************************************************)
Submitting == {i \in SlotIds : slots[i].st = "Submitting"}

\* C1: a POST to api/participation-requests/ is issued only for form values
\* that satisfy every rule of the schema: every POST in flight carries values
\* without a rule violation, and a submit attempt made with a violation
\* issues no request and marks the offending fields.
C1_PostOnlyForValidValues ==
    /\ \A i \in Submitting :
          /\ FieldErrors(variant, slots[i].values) = {}
          /\ slots[i].req.method = "POST"
          /\ slots[i].req.url = baseUrl(variant) \o "api/participation-requests/"
    /\ out.event \in {"submit", "invalid"} =>
          IF FieldErrors(variant, values) = {}
          THEN /\ out.requests = <<slots[out.slot].req>>
               /\ slots[out.slot].values = values
               /\ out.errors = {}
          ELSE /\ out.requests = <<>>
               /\ slots[out.slot].st = "Idle"
               /\ out.errors = FieldErrors(variant, values)
    /\ out.event \notin {"submit", "effects"} => out.requests = <<>>

\* C1 witness: a submit attempt with a broken rule was made while an earlier,
\* valid submission was in flight.
C1_Witness ==
    /\ out.event = "invalid"
    /\ out.errors # {}
    /\ Submitting # {}

\* C2: when the POST settles with an ok status, a success notification is
\* shown and every field is back at its default: text and selection fields
\* empty, every headcount field "0".
C2_OkResetsForm ==
    out.event = "postOk" =>
        /\ out.input.kind = "response"
        /\ out.input.status \in 200..299
        /\ Len(out.toasts) = 1
        /\ out.toasts[1].kind = "success"
        /\ \A f \in DOMAIN values :
              values[f] = IF f \in HeadcountFields(variant) THEN <<"0">> ELSE <<>>

\* C2 witness: a POST of the subjects variant settled with 201.
C2_Witness ==
    /\ out.event = "postOk"
    /\ out.input.status = 201
    /\ variant = "part_001"

FailureEvents == {"postRejected", "postNotOk", "postErrorBody"}

\* C3: the handling of a failed submission (a rejected fetch, a non-ok
\* status, the reading of the error body) leaves every form value unchanged.
C3_FailureKeepsValues ==
    [][out'.event \in FailureEvents => values' = values]_vars

\* C3 witness: a submission was rejected by the API, its error body was read,
\* and the form still holds values the schema accepts.
C3_Witness ==
    /\ out.event = "postErrorBody"
    /\ values # defaultValues(variant)
    /\ FieldErrors(variant, values) = {}

\* C4 as stated: after a non-ok status the error notification shows exactly
\* the body's message field whenever that field is present, and a generic
\* message when it is absent or the body cannot be parsed.
C4_Original ==
    out.event = "postErrorBody" =>
        /\ Len(out.toasts) = 1
        /\ out.toasts[1].kind = "error"
        /\ IF out.input.kind = "message"
           THEN out.toasts[1].text = out.input.message
           ELSE out.toasts[1].text \in {RejectedText, ExceptionText}

\* C4 amended: after a non-ok status the error notification shows exactly the
\* body's message field when that field is present and not empty; it shows
\* "Failed to submit registration." when the field is absent or empty, and
\* "An error occurred while submitting." when the body is not JSON or is null.
C4_MessageOrGeneric ==
    out.event = "postErrorBody" =>
        /\ Len(out.toasts) = 1
        /\ out.toasts[1].kind = "error"
        /\ out.toasts[1].text =
              CASE out.input.kind = "message" /\ out.input.message # "" ->
                     out.input.message
                [] out.input.kind = "message" /\ out.input.message = "" ->
                     "Failed to submit registration."
                [] out.input.kind = "nomessage" ->
                     "Failed to submit registration."
                [] OTHER -> "An error occurred while submitting."

\* C4 witness: the body {"message": "Email already registered"} was read and
\* that exact text shown.
C4_Witness ==
    /\ out.event = "postErrorBody"
    /\ out.input.kind = "message"
    /\ out.toasts = <<Toast("error", "Email already registered")>>

GetFailed ==
    \/ out.event = "getUnparsable"
    \/ /\ out.event = "getSettled"
       /\ ~(out.input.kind = "response" /\ out.input.status \in 200..299)

\* C5: when the GET of a reference list returns a non-ok status (or is
\* rejected) or its body fails to parse, that list stays empty and exactly
\* one "Failed to load <resource>" notification is produced for it.
C5_LoadFailureNotifiedOnce ==
    /\ \A r \in AllResources :
          /\ fetchSt[r] = "failed" => lists[r] = <<>> /\ loadErrors[r] = 1
          /\ fetchSt[r] # "failed" => loadErrors[r] = 0
    /\ GetFailed =>
          /\ out.toasts = <<Toast("error", "Failed to load " \o out.resource)>>
          /\ fetchSt[out.resource] = "failed"
    /\ out.event \in {"getSettled", "getLoaded"} /\ ~GetFailed => out.toasts = <<>>

\* C5 witness: the roles GET answered 500 and the roles list is empty.
C5_Witness ==
    /\ out.event = "getSettled"
    /\ out.resource = "roles"
    /\ out.input.status = 500
    /\ lists["roles"] = <<>>
    /\ loadErrors["roles"] = 1

\* C6 as stated: on mount each of the three variants issues exactly one GET
\* for countries and exactly one for roles (the subjects variant one more for
\* subjects), and never another.
C6_Original ==
    /\ \A r \in AllResources : gets[r] <= 1
    /\ Rendered =>
          /\ gets["countries"] = 1
          /\ gets["roles"] = 1
          /\ variant = "part_001" => gets["subjects"] = 1

\* C6 amended: on mount part_000 and part_001 issue exactly one GET for
\* countries and one for roles (part_001 one more for subjects); register.tsx
\* issues exactly one GET for countries and none for roles, whose options are
\* the static roleOptions; no reference GET is ever issued again.
C6_OneGetPerFetchedList ==
    /\ \A r \in AllResources : gets[r] <= 1
    /\ Rendered =>
          \A r \in AllResources :
              gets[r] =
                 IF \/ r = "countries"
                    \/ r = "roles" /\ variant \in {"part_000", "part_001"}
                    \/ r = "subjects" /\ variant = "part_001"
                 THEN 1 ELSE 0
    /\ out.event = "effects" =>
          \A k \in 1..Len(out.requests) : out.requests[k].method = "GET"

\* C6 witness: register.tsx is on screen, its only GET (countries) has failed
\* and none was issued again.
C6_Witness ==
    /\ variant = "register"
    /\ Rendered
    /\ fetchSt["countries"] = "failed"
    /\ gets["countries"] = 1
    /\ gets["roles"] = 0

\* the id of a loaded list whose option value is s
IdOf(ids, s) == CHOOSE n \in Range(ids) : toString(n) = s

\* C7: in part_000 and register.tsx, for every option id n of the loaded
\* countries list, selecting that option and submitting a valid form yields a
\* payload whose country is the integer n, POSTed to
\* <baseUrl>api/participation-requests/.
C7_CountryIsTheOptionId ==
    /\ \A n \in 0..MaxId : parseInt(toString(n)) = JSNum(n)
    /\ variant \in {"part_000", "register"} =>
          /\ \A n \in Range(lists["countries"]) :
                /\ toString(n) \in Range(SelectOptions(variant, "country"))
                /\ formData(variant,
                            [values EXCEPT !["country"] = toString(n)]).country
                      = JSNum(n)
          /\ \A i \in Submitting :
                /\ \E n \in Range(lists["countries"]) :
                      /\ slots[i].values.country = toString(n)
                      /\ slots[i].req.body.country = JSNum(n)
                /\ slots[i].req.method = "POST"
                /\ slots[i].req.url =
                      "https://api.olympcentre.uz/api/participation-requests/"

\* C7 witness: register.tsx has a POST in flight for the option "12", with the
\* integer 12 as its country.
C7_Witness ==
    \E i \in Submitting :
        /\ variant = "register"
        /\ slots[i].values.country = <<"1", "2">>
        /\ slots[i].req.body.country = JSNum(12)

\* C8 as stated: the payload is a function of the validated values with the
\* variant's shape: part_000 role as an integer, headcount flat; register.tsx
\* role as the label string, headcount flat; part_001 country, role and
\* subject as id strings, the four headcounts under participants; every
\* other field (the country of part_000 and register.tsx among them) copied
\* unchanged.
C8_Original ==
    \A i \in Submitting :
        LET vals == slots[i].values
            body == slots[i].req.body
        IN  CASE variant = "part_000" ->
                   body = [full_name |-> JSStr(vals.full_name),
                           country |-> JSStr(vals.country),
                           role |-> JSNum(IdOf(lists["roles"], vals.role)),
                           email |-> JSStr(vals.email),
                           whatsapp_number |-> JSStr(vals.whatsapp_number),
                           number_of_students |->
                               JSStr(vals.number_of_students)]
              [] variant = "register" ->
                   body = [full_name |-> JSStr(vals.full_name),
                           country |-> JSStr(vals.country),
                           role |-> JSStr(vals.role),
                           email |-> JSStr(vals.email),
                           phone_number |-> JSStr(vals.phone_number),
                           students_coming |-> JSStr(vals.students_coming)]
              [] variant = "part_001" ->
                   body = [full_name |-> JSStr(vals.full_name),
                           country |-> JSStr(vals.country),
                           role |-> JSStr(vals.role),
                           subject |-> JSStr(vals.subject),
                           email |-> JSStr(vals.email),
                           whatsapp_numer |-> JSStr(vals.whatsapp_numer),
                           participants |-> JSObj(
                              [maths_students |-> JSStr(vals.maths_students),
                               informatics_students |->
                                   JSStr(vals.informatics_students),
                               maths_team_leaders |->
                                   JSStr(vals.maths_team_leaders),
                               informatics_team_leaders |->
                                   JSStr(vals.informatics_team_leaders)])]

\* C8 amended: as stated, except that the country of part_000 and
\* register.tsx is not copied but sent as the integer of the selected id;
\* the remaining fields (full name, email, contact number) are copied
\* unchanged.
C8_PayloadShape ==
    \A i \in Submitting :
        LET vals == slots[i].values
            body == slots[i].req.body
        IN  CASE variant = "part_000" ->
                   body = [full_name |-> JSStr(vals.full_name),
                           country |->
                               JSNum(IdOf(lists["countries"], vals.country)),
                           role |-> JSNum(IdOf(lists["roles"], vals.role)),
                           email |-> JSStr(vals.email),
                           whatsapp_number |-> JSStr(vals.whatsapp_number),
                           number_of_students |->
                               JSStr(vals.number_of_students)]
              [] variant = "register" ->
                   /\ vals.role \in {TeamLeader, TeamCoordinator}
                   /\ body = [full_name |-> JSStr(vals.full_name),
                              country |->
                                  JSNum(IdOf(lists["countries"], vals.country)),
                              role |-> JSStr(vals.role),
                              email |-> JSStr(vals.email),
                              phone_number |-> JSStr(vals.phone_number),
                              students_coming |-> JSStr(vals.students_coming)]
              [] variant = "part_001" ->
                   body = [full_name |-> JSStr(vals.full_name),
                           country |-> JSStr(vals.country),
                           role |-> JSStr(vals.role),
                           subject |-> JSStr(vals.subject),
                           email |-> JSStr(vals.email),
                           whatsapp_numer |-> JSStr(vals.whatsapp_numer),
                           participants |-> JSObj(
                              [maths_students |-> JSStr(vals.maths_students),
                               informatics_students |->
                                   JSStr(vals.informatics_students),
                               maths_team_leaders |->
                                   JSStr(vals.maths_team_leaders),
                               informatics_team_leaders |->
                                   JSStr(vals.informatics_team_leaders)])]

\* C8 witness: POSTs of part_001 are in flight whose headcounts are not the
\* defaults, nested under participants.
C8_Witness ==
    \E i \in Submitting :
        /\ variant = "part_001"
        /\ slots[i].req.body.participants.o.maths_students = JSStr(<<"2">>)
        /\ slots[i].req.body.country = JSStr(<<"1", "2">>)

\* the state machine of a submission attempt
MachineEdges ==
    {<<"Idle", "Validating">>, <<"Validating", "Invalid">>,
     <<"Invalid", "Idle">>, <<"Validating", "Valid">>,
     <<"Valid", "Submitting">>, <<"Submitting", "Succeeded">>,
     <<"Succeeded", "Idle">>, <<"Submitting", "Failed">>, <<"Failed", "Idle">>}

FollowsMachine(trace) ==
    \A k \in 1..(Len(trace) - 1) : <<trace[k], trace[k + 1]>> \in MachineEdges

\* a step moves a submission only along the machine, from the state it was in
\* to the state it is left in, and a step that ends an attempt (a failed
\* validation, an ok response, a rejected fetch, an error body read) leaves
\* it Idle
C9_Step ==
    \A i \in SlotIds :
        IF out'.slot = i /\ out'.trace # <<>>
        THEN /\ out'.trace[1] = slots[i].st
             /\ Last(out'.trace) = slots'[i].st
             /\ FollowsMachine(out'.trace)
             /\ out'.event \in {"invalid", "postOk", "postRejected",
                                "postErrorBody"} => slots'[i].st = "Idle"
             /\ out'.event \in {"submit", "postNotOk"} => slots'[i].st # "Idle"
        ELSE slots'[i] = slots[i]

C9_ReturnsToIdle ==
    \A i \in SlotIds : (slots[i].st # "Idle") ~> (slots[i].st = "Idle")

\* every request of a submission is eventually answered
NetworkSettles ==
    \A i \in SlotIds :
        /\ WF_vars(\E res \in Settlements : PostSettles(i, res))
        /\ WF_vars(\E body \in ErrorBodies : PostBodySettles(i, body))

\* C9 as stated: every attempt follows Idle -> Validating -> (Invalid -> Idle)
\* or (Valid -> Submitting -> Succeeded -> Idle or Failed -> Idle), and every
\* attempt that starts eventually returns to Idle.
C9_Original == [][C9_Step]_vars /\ C9_ReturnsToIdle

\* C9 amended: every attempt follows the machine and every step that ends an
\* attempt leaves it Idle; an attempt returns to Idle provided its POST and,
\* after a non-ok status, the reading of the error body settle.  No timeout
\* is set, so an attempt whose request is never answered stays Submitting
\* (or Failed, reading the body) while the form stays usable.
C9_IdleOnceSettled == [][C9_Step]_vars /\ (NetworkSettles => C9_ReturnsToIdle)

\* C9 witness: an attempt went through Failed back to Idle while another one
\* is still Submitting.
C9_Witness ==
    /\ out.event = "postErrorBody"
    /\ out.trace = <<"Failed", "Idle">>
    /\ slots[out.slot].st = "Idle"
    /\ Submitting # {}

\* C10: a full name passes exactly when its length is at least the variant's
\* minimum: 3 in part_000 and register.tsx, 2 in part_001.
C10_FullNameThreshold ==
    verdict.rule = "full_name" =>
        (verdict.ok <=> Len(probe) >= (IF variant = "part_001" THEN 2 ELSE 3))

\* C10 witness: a name of exactly three characters passed in register.tsx.
C10_Witness ==
    /\ verdict.rule = "full_name"
    /\ variant = "register"
    /\ Len(probe) = 3
    /\ verdict.ok

NonZeroDigits == {"1", "2", "3", "4", "5", "6", "7", "8", "9"}
AllDigits == NonZeroDigits \cup {"0"}

\* C11: in part_000 and part_001 the contact number passes exactly when it is
\* a '+', a digit 1-9 and then 1 to 14 further digits, and any other string
\* blocks the submission of an otherwise valid form; in register.tsx every
\* non-empty contact number passes.
C11_PhoneRule ==
    verdict.rule = "phone" =>
        LET n == Len(probe)
            international ==
                /\ n >= 3
                /\ probe[1] = "+"
                /\ probe[2] \in NonZeroDigits
                /\ n - 2 >= 1
                /\ n - 2 <= 14
                /\ \A i \in 3..n : probe[i] \in AllDigits
        IN  /\ verdict.ok <=>
                  IF variant = "register" THEN n >= 1 ELSE international
            /\ verdict.submits <=> verdict.ok

\* C11 witness: "1234567890", without the '+', was rejected in part_000 and
\* blocks submission.
C11_Witness ==
    /\ verdict.rule = "phone"
    /\ variant = "part_000"
    /\ probe = <<"1", "2", "3", "4", "5", "6", "7", "8", "9", "0">>
    /\ ~verdict.ok
    /\ ~verdict.submits

Pending == {i \in SlotIds : slots[i].st # "Idle"}

\* C12: a submit click made while an earlier submission's POST is pending is
\* not blocked: the click is handled however many submissions are pending
\* (up to the MaxInFlight the model follows), it validates the current
\* values and, when they pass, issues one more POST next to the pending ones.
C12_SubmitNotBlocked ==
    /\ (Rendered /\ Cardinality(Pending) < MaxInFlight) => ENABLED handleSubmit
    /\ out.event \in {"submit", "invalid"} =>
          /\ out.event = "submit" <=> FieldErrors(variant, values) = {}
          /\ out.event = "submit" =>
                /\ out.slot \in Submitting
                /\ Len(out.requests) = 1
                /\ out.requests[1].method = "POST"
                /\ out.requests[1] = slots[out.slot].req
          /\ out.event = "invalid" => out.slot \notin Pending

\* C12 witness: a second click has just issued a POST of the same form values
\* while the POST of the first click is still pending.
C12_Witness ==
    /\ out.event = "submit"
    /\ \E i \in Submitting :
          /\ i # out.slot
          /\ slots[i].req = slots[out.slot].req
          /\ slots[i].values = values

GetEvents == {"getSettled", "getLoaded", "getUnparsable"}

\* a step about reference list r touches nothing of another list, and leaves
\* in r's own list the array of r's own response, or what it held
C13_Step ==
    \A r \in AllResources :
        (out'.event \in GetEvents /\ out'.resource = r) =>
            /\ \A q \in AllResources \ {r} :
                  /\ lists'[q] = lists[q]
                  /\ fetchSt'[q] = fetchSt[q]
                  /\ loadErrors'[q] = loadErrors[q]
            /\ lists'[r] = IF out'.event = "getLoaded" THEN out'.input.data
                           ELSE lists[r]

\* whatever the other fetches have come to, the response of a pending GET
\* can arrive with any outcome, and the content of a list follows from the
\* outcome of its own GET alone
C13_State ==
    \A r \in AllResources :
        /\ fetchSt[r] = "pending" =>
              \A res \in Settlements : ENABLED GetSettles(r, res)
        /\ fetchSt[r] = "parsing" =>
              /\ ENABLED GetBodyUnparsable(r)
              /\ \A data \in OptionSamples(r) : ENABLED GetBodyParsed(r, data)
        /\ fetchSt[r] # "loaded" => lists[r] = <<>>
        /\ fetchSt[r] = "loaded" => lists[r] \in OptionSamples(r)

\* C13: the fetches of the reference lists are independent under every
\* interleaving of their responses: the outcome of one list's GET (success,
\* HTTP error, parse failure, still pending) never changes another list, and
\* each list ends as its own response made it, in whatever order the
\* responses arrive.
C13_FetchesIndependent == [][C13_Step]_vars /\ []C13_State

\* C13 witness: in part_001 the countries arrived after the roles GET had
\* failed and while the subjects GET is still pending.
C13_Witness ==
    /\ variant = "part_001"
    /\ out.event = "getLoaded"
    /\ out.resource = "countries"
    /\ lists["countries"] = <<3, 12>>
    /\ fetchSt["roles"] = "failed"
    /\ fetchSt["subjects"] = "pending"

\* a list changes only when the body of its own GET is stored, from empty,
\* and a list whose GET has been answered is never written again
C14_Step ==
    \A r \in AllResources :
        /\ lists'[r] # lists[r] =>
              /\ lists[r] = <<>>
              /\ out'.event = "getLoaded"
              /\ out'.resource = r
              /\ lists'[r] = out'.input.data
              /\ fetchSt[r] = "parsing"
        /\ out'.event = "getLoaded" /\ out'.resource = r =>
              fetchSt[r] # "loaded" /\ fetchSt'[r] = "loaded"
        /\ fetchSt[r] \in {"loaded", "failed"} =>
              fetchSt'[r] = fetchSt[r] /\ lists'[r] = lists[r]
        /\ out'.event \in {"edit", "submit", "invalid", "postOk", "postNotOk",
                            "postRejected", "postErrorBody"} =>
              lists'[r] = lists[r]

\* C14: each option list is written at most once per mount: it starts empty,
\* may change once to the array its successful GET returned, and is never
\* modified afterwards by user input, validation, submission or form reset.
C14_ListWrittenOnce ==
    [][C14_Step]_vars /\ [](\A r \in AllResources : gets[r] = 0 => lists[r] = <<>>)

\* C14 witness: a form was filled in from the loaded lists, submitted and
\* reset on success, and the lists are still the loaded ones.
C14_Witness ==
    /\ out.event = "postOk"
    /\ values = defaultValues(variant)
    /\ lists["countries"] = <<3, 12>>
    /\ fetchSt["countries"] = "loaded"

ZeroToFour == {<<"0">>, <<"1">>, <<"2">>, <<"3">>, <<"4">>}
ZeroToTwo == {<<"0">>, <<"1">>, <<"2">>}

\* the choices the claim gives for a headcount field
ClaimedChoices(f) ==
    IF f \in {"number_of_students", "students_coming", "maths_students"}
    THEN ZeroToFour ELSE ZeroToTwo

\* the headcount values of a request body
PayloadHeadcounts(body) ==
    IF variant = "part_001" THEN body.participants.o ELSE body

LoadedSelections ==
    CASE variant = "part_000" -> [country |-> "countries", role |-> "roles"]
      [] variant = "part_001" -> [country |-> "countries", role |-> "roles",
                                  subject |-> "subjects"]
      [] variant = "register" -> [country |-> "countries"]

\* an id as the payload of the variant carries it
PayloadId(f, n) ==
    IF variant = "part_001" THEN JSStr(toString(n)) ELSE JSNum(n)

\* C16: the country of every POST payload is the id of an entry of the
\* loaded countries list, and likewise the role (part_000, part_001) and the
\* subject (part_001); while one of these lists is empty, its GET failed,
\* pending or answered with no entry, the selection is empty, every submit
\* attempt fails validation on that field and no POST is issued.
C16_IdsFromLoadedLists ==
    \A f \in DOMAIN LoadedSelections :
        LET ids == lists[LoadedSelections[f]]
        IN  /\ \A i \in Submitting :
                  \E n \in Range(ids) : slots[i].req.body[f] = PayloadId(f, n)
            /\ ids = <<>> =>
                  /\ values[f] = <<>>
                  /\ f \in FieldErrors(variant, values)
                  /\ Submitting = {}
                  /\ out.event # "submit"
                  /\ out.event = "invalid" => f \in out.errors /\ out.requests = <<>>

\* C16 witness: in part_000 the countries are loaded and one is selected, the
\* roles GET has failed, and a submit attempt was stopped at the role.
C16_Witness ==
    /\ variant = "part_000"
    /\ out.event = "invalid"
    /\ out.errors = {"role"}
    /\ fetchSt["roles"] = "failed"
    /\ lists["roles"] = <<>>
    /\ values.country = <<"3">>

\* the step that finishes a submission shows exactly one notification, a
\* success exactly when the POST was answered with an ok status; a non-ok
\* status shows nothing until its error body has been read, and no other
\* step shows a notification about a submission
C17_Step ==
    /\ \A i \in SlotIds :
          /\ (slots[i].st # "Idle" /\ slots'[i].st = "Idle") =>
                /\ out'.slot = i
                /\ Len(out'.toasts) = 1
                /\ out'.toasts[1].kind \in {"success", "error"}
                /\ out'.toasts[1].kind = "success" <=>
                      /\ slots[i].st = "Submitting"
                      /\ out'.input.kind = "response"
                      /\ out'.input.status \in 200..299
          /\ (slots[i].st = "Submitting" /\ slots'[i].st = "Failed") =>
                /\ out'.toasts = <<>>
                /\ out'.input.kind = "response"
                /\ out'.input.status \notin 200..299
          /\ slots[i].st = "Failed" => slots'[i].st \in {"Failed", "Idle"}
          /\ slots[i].st = "Submitting" =>
                slots'[i].st \in {"Submitting", "Failed", "Idle"}
    /\ out'.event \in {"edit", "submit", "invalid", "effects"} => out'.toasts = <<>>
    /\ \A k \in 1..Len(out'.toasts) :
          out'.toasts[k].kind = "success" => out'.event = "postOk"

\* C17: every POST that settles produces exactly one notification, a success
\* if and only if the status is ok and otherwise one error (shown once the
\* error body has been read, or at once when the fetch is rejected); no
\* settled submission produces both kinds, two errors or none.
C17_OneNotificationPerPost == [][C17_Step]_vars

\* C17 witness: a POST was rejected by the network and exactly the one error
\* notification was shown, while another POST is still awaiting its error
\* body.
C17_Witness ==
    /\ out.event = "postRejected"
    /\ out.toasts = <<Toast("error", "An error occurred while submitting.")>>
    /\ slots[out.slot].st = "Idle"
    /\ \E i \in SlotIds : slots[i].st = "Failed"

\* the submit click captures the values into the payload and leaves the form
\* as it is; an edit or another submission's outcome never changes a payload
\* in flight; the ok response resets the form whatever it holds by then
C18_Step ==
    /\ out'.event = "submit" =>
          /\ values' = values
          /\ slots'[out'.slot].values = values
          /\ slots'[out'.slot].req.body = formData(variant, values)
    /\ out'.event = "postOk" =>
          /\ slots[out'.slot].st = "Submitting"
          /\ out'.input.formEdited <=> values # slots[out'.slot].values
          /\ \A f \in DOMAIN values' :
                values'[f] =
                   IF f \in HeadcountFields(variant) THEN <<"0">> ELSE <<>>
    /\ \A i \in SlotIds :
          (slots[i].st = "Submitting" /\ slots'[i].st = "Submitting") =>
              slots'[i] = slots[i]

\* C18: the reset on success is applied when the response arrives, not at the
\* submit click: values edited while the POST was in flight, or kept after
\* another submission's failure, are overwritten with the defaults when the
\* POST succeeds, and a payload already sent keeps the values captured at
\* its click.
C18_ResetOnResponse ==
    [][C18_Step]_vars
    /\ [](\A i \in Submitting :
             slots[i].req.body = formData(variant, slots[i].values))

\* C18 witness: the first of two POSTs has just succeeded and reset the form;
\* the second, sent while the first was in flight with the values the user
\* had edited in the meantime, is still in flight and carries those values.
C18_Witness ==
    /\ variant = "register"
    /\ out.event = "postOk"
    /\ out.input.formEdited
    /\ out.slot = 1
    /\ values = defaultValues(variant)
    /\ slots[2].st = "Submitting"
    /\ slots[2].values.students_coming = <<"4">>
    /\ slots[2].req.body.students_coming = JSStr(<<"4">>)

====
